---- MODULE Spec2Model ----
(***************************************************************************)
(* A model of src/src/Train/Project.py: the COCOMO-81 effort benchmark.    *)
(*                                                                         *)
(* The script is one linear pipeline (load, encode, impute, scale, split,  *)
(* train, parametric estimate, evaluate, report) plus two functions,       *)
(* calculate_cocomo_effort and evaluate_model.                             *)
(*                                                                         *)
(* Number representation.  TLC has integers only, so                       *)
(*   - a missing numeric value (NaN) is the integer NaN below;             *)
(*   - a rational is a pair <<num, den>> with den > 0, and <<0, 0>> is NaN;*)
(*   - a square root is kept as its radicand, [sqrt |-> <<num, den>>];     *)
(*   - a * kloc^b * em has a non-integer exponent and is kept as the term  *)
(*     [a10, b100, kloc, em] (a in tenths, b in hundredths);               *)
(*   - log1p of a term is the term [log1p |-> t]; the observed effort of a *)
(*     dataset row is drawn from the values expm1(k), written              *)
(*     [expm1 |-> k], on which log1p is exactly k;                         *)
(*   - the numeric columns of the feature matrix X are held in half units  *)
(*     (twice the value), because the median of an even number of integers *)
(*     is a half-integer.                                                  *)
(***************************************************************************)
EXTENDS Integers, Sequences, FiniteSets, TLC

VARIABLES
    pc,             \* position of the script / of the function call
    data,           \* the loaded DataFrame: a sequence of rows, label i = position i
    data_encoded,   \* pd.get_dummies(data): per row, the one-hot columns
    X,              \* the feature matrix
    X_unscaled,     \* the copy of X taken before scaling
    scaler,         \* the StandardScaler object
    y_log,          \* np.log1p(y)
    split,          \* the result of train_test_split
    models,         \* lr_model, dt_model, rf_model
    effort_cocomo,  \* the column data['effort_cocomo']
    cocomo_pred,    \* data.loc[test_indices, 'effort_cocomo'].values
    preds,          \* numeric predictions handed to evaluate_model, per estimator
    results,        \* results[name] = evaluate_model(...)
    best_model,     \* the selected estimator's name
    disk,           \* files written by joblib.dump
    error,          \* the exception that aborted the script, or "none"
    run,            \* 1 for the first execution of the script, 2 for a repeated one
    prev,           \* what the first execution produced, kept for comparison
    row,            \* argument of a direct call of calculate_cocomo_effort
    row_mode,       \* the development mode the argument row was built from
    ret,            \* outcome of that call
    y_true,         \* arguments of a direct call of evaluate_model
    y_pred,
    metrics         \* outcome of that call

vars == <<pc, data, data_encoded, X, X_unscaled, scaler, y_log, split, models,
          effort_cocomo, cocomo_pred, preds, results, best_model, disk, error,
          run, prev, row, row_mode, ret, y_true, y_pred, metrics>>

pipeline_vars == <<data, data_encoded, X, X_unscaled, scaler, y_log, split, models,
                   effort_cocomo, cocomo_pred, preds, results, best_model, disk,
                   error, run, prev>>

cocomo_vars == <<row, row_mode, ret>>

eval_vars == <<y_true, y_pred, metrics>>

----------------------------------------------------------------------------
(* Bounds of the model. *)

\* a direct call of calculate_cocomo_effort: at most this many drivers are absent
\* from the row (besides the row that carries none of them)
MaxAbsent == 1

\* a direct call of evaluate_model: vectors of 1..MaxLen values in 0..MaxVal
MaxLen == 3

MaxVal == 2

\* the feature-building steps: datasets of 1..MaxRows rows
MaxRows == 4

\* the whole script: datasets of exactly NumRows rows
NumRows == 6

----------------------------------------------------------------------------
(* Values. *)

NaN == -1

None == "None"

\* a missing dev_mode cell (NaN in an object column)
NoMode == "NaN"

IsNaN(v) == v = NaN

\* product of two floats, NaN absorbing
Mul(a, b) == IF IsNaN(a) \/ IsNaN(b) THEN NaN ELSE a * b

Abs(i) == IF i < 0 THEN -i ELSE i

RECURSIVE SeqSum(_)
SeqSum(s) == IF s = <<>> THEN 0 ELSE Head(s) + SeqSum(Tail(s))

Range(s) == {s[i] : i \in DOMAIN s}

\* rationals <<num, den>>, den > 0
RatNaN == <<0, 0>>

RatLess(p, q) == p[1] * q[2] < q[1] * p[2]

RatEq(p, q) == p[1] * q[2] = q[1] * p[2]

----------------------------------------------------------------------------
(* Step 2.1: the cost drivers.  Step 5: the parametric estimator. *)

cost_drivers == <<"rely", "data", "cplx", "time", "stor", "virt", "turn",
                  "acap", "aexp", "pcap", "vexp", "lexp", "modp", "tool", "sced">>

DriverSet == Range(cost_drivers)

\* np.log1p: exact on expm1(k), a term otherwise
np_log1p(x) == IF "expm1" \in DOMAIN x THEN x.expm1 ELSE [log1p |-> x]

\* a * (kloc ** b) * em, with a in tenths and b in hundredths
Effort(ab, kloc, em) == [a10 |-> ab[1], b100 |-> ab[2], kloc |-> kloc, em |-> em]

\* a float expression with a NaN operand is NaN
EffortIsNaN(e) == IsNaN(e.kloc) \/ IsNaN(e.em)

\* (Coefficients with the two fall-back branches giving the organic pair)
CoefficientsDefaultOrganic(r) ==
    IF "mode_organic" \in DOMAIN r /\ r["mode_organic"] = 1 THEN <<24, 105>>
    ELSE IF "mode_semidetached" \in DOMAIN r /\ r["mode_semidetached"] = 1 THEN <<30, 112>>
    ELSE IF "mode_embedded" \in DOMAIN r /\ r["mode_embedded"] = 1 THEN <<36, 120>>
    ELSE IF "dev_mode" \in DOMAIN r
         THEN IF r["dev_mode"] = "embedded" THEN <<36, 120>>
              ELSE IF r["dev_mode"] = "semidetached" THEN <<30, 112>>
              ELSE <<24, 105>>
    ELSE <<24, 105>>

\* lines 113-128: the pair (a, b), a in tenths and b in hundredths
Coefficients(r) ==
    IF "mode_organic" \in DOMAIN r /\ r["mode_organic"] = 1 THEN <<24, 105>>
    ELSE IF "mode_semidetached" \in DOMAIN r /\ r["mode_semidetached"] = 1 THEN <<30, 112>>
    ELSE IF "mode_embedded" \in DOMAIN r /\ r["mode_embedded"] = 1 THEN <<36, 120>>
    ELSE IF "dev_mode" \in DOMAIN r
         THEN IF r["dev_mode"] = "organic" THEN <<24, 105>>
              ELSE IF r["dev_mode"] = "semidetached" THEN <<30, 112>>
              ELSE <<36, 120>>
    ELSE <<36, 120>>

\* (EffortMultiplier with "em = row[driver]" in place of "em *= row[driver]")
RECURSIVE EffortMultiplierAssign(_, _)
EffortMultiplierAssign(r, k) ==
    IF k = 0 THEN 1
    ELSE LET em == EffortMultiplierAssign(r, k - 1)
             driver == cost_drivers[k]
         IN  IF driver \in DOMAIN r THEN r[driver] ELSE em

\* lines 131-134: em after the first k drivers of cost_drivers
RECURSIVE EffortMultiplier(_, _)
EffortMultiplier(r, k) ==
    IF k = 0 THEN 1
    ELSE LET em == EffortMultiplier(r, k - 1)
             driver == cost_drivers[k]
         IN  IF driver \in DOMAIN r THEN Mul(em, r[driver]) ELSE em

\* lines 111-140.  row['loc'] raises KeyError on a row without that label.
calculate_cocomo_effort(r) ==
    LET ab == Coefficients(r)
        em == EffortMultiplier(r, Len(cost_drivers))
    IN  IF "loc" \notin DOMAIN r
        THEN [raised |-> "KeyError"]
        ELSE [raised |-> "none",
              value  |-> np_log1p(Effort(ab, r["loc"], em))]

----------------------------------------------------------------------------
(* Step 6: the evaluator. *)

Diffs(yt, yp) == [i \in DOMAIN yt |-> yt[i] - yp[i]]

\* sklearn.metrics.mean_absolute_error
mean_absolute_error(yt, yp) ==
    <<SeqSum([i \in DOMAIN yt |-> Abs(Diffs(yt, yp)[i])]), Len(yt)>>

\* sklearn.metrics.mean_squared_error
mean_squared_error(yt, yp) ==
    <<SeqSum([i \in DOMAIN yt |-> Diffs(yt, yp)[i] * Diffs(yt, yp)[i]]), Len(yt)>>

np_sqrt(q) == [sqrt |-> q]

\* sklearn.metrics.r2_score: NaN on fewer than two samples; 1 - SSres/SStot;
\* with SStot = 0 it is 1 for exact predictions and 0 otherwise
r2_score(yt, yp) ==
    LET n     == Len(yt)
        ssres == mean_squared_error(yt, yp)[1]
        \* n * SStot = n * sum(y^2) - sum(y)^2
        nsstot == n * SeqSum([i \in DOMAIN yt |-> yt[i] * yt[i]]) - SeqSum(yt) * SeqSum(yt)
    IN  IF n < 2 THEN RatNaN
        ELSE IF nsstot # 0 THEN <<nsstot - n * ssres, nsstot>>
        ELSE IF ssres = 0 THEN <<1, 1>>
        ELSE <<0, 1>>

\* (evaluate_model with the mean error in place of the mean absolute error)
evaluate_model_signed(yt, yp) ==
    [mae  |-> <<SeqSum(Diffs(yt, yp)), Len(yt)>>,
     rmse |-> np_sqrt(mean_squared_error(yt, yp)),
     r2   |-> r2_score(yt, yp)]

\* lines 158-168
evaluate_model(yt, yp) ==
    [mae  |-> mean_absolute_error(yt, yp),
     rmse |-> np_sqrt(mean_squared_error(yt, yp)),
     r2   |-> r2_score(yt, yp)]

----------------------------------------------------------------------------
(* Steps 1-2.2: the dataset, the feature builder and the imputer. *)

\* the observed dev_mode categories other than a missing cell; "other" stands for
\* any value outside the three known ones
ModeValues == {"organic", "semidetached", "embedded", "other"}

\* pd.get_dummies names the indicator column prefix + "_" + value
ModeColumn == [organic      |-> "mode_organic",
               semidetached |-> "mode_semidetached",
               embedded     |-> "mode_embedded",
               other        |-> "mode_other"]

\* line 34: the three indicator columns the feature matrix selects
ModeColumns == {"mode_embedded", "mode_organic", "mode_semidetached"}

\* line 33: ['loc'] + cost_drivers
NumericColumns == {"loc"} \cup DriverSet

FeatureColumns == NumericColumns \cup ModeColumns

\* one row of the CSV as a pandas Series: label -> value
MkRow(loc, drv, mode, k) ==
    [l \in NumericColumns \cup {"dev_mode", "actual"} |->
        IF l = "loc" THEN loc
        ELSE IF l = "dev_mode" THEN mode
        ELSE IF l = "actual" THEN [expm1 |-> k]
        ELSE drv[l]]

\* numeric cells of X are held in half units
Half(v) == IF IsNaN(v) THEN NaN ELSE 2 * v

Column(M, c) == [i \in DOMAIN M |-> M[i][c]]

\* line 29: pd.get_dummies(data, columns=['dev_mode'], prefix=['mode']) makes one
\* indicator column per value that occurs in the column; a missing cell gets no
\* column and no 1.  Only the indicator columns of the result are kept here.
get_dummies(df) ==
    LET categories == {df[i]["dev_mode"] : i \in DOMAIN df} \ {NoMode}
        columns    == {ModeColumn[c] : c \in categories}
    IN  [i \in DOMAIN df |->
            [c \in columns |->
                IF df[i]["dev_mode"] # NoMode /\ c = ModeColumn[df[i]["dev_mode"]]
                THEN 1 ELSE 0]]

\* the column labels of a frame
Columns(M) == UNION {DOMAIN M[i] : i \in DOMAIN M}

\* lines 32-35: pd.concat([data[['loc'] + cost_drivers], data_encoded[[...]]], axis=1)
BuildX(df, enc) ==
    [i \in DOMAIN df |->
        [c \in FeatureColumns |->
            IF c \in ModeColumns THEN enc[i][c] ELSE Half(df[i][c])]]

NonNaN(col) == {i \in DOMAIN col : ~IsNaN(col[i])}

\* the k-th smallest of the cells col[i], i in I
Kth(col, I, k) ==
    CHOOSE v \in {col[i] : i \in I} :
        /\ Cardinality({i \in I : col[i] < v}) < k
        /\ Cardinality({i \in I : col[i] <= v}) >= k

\* line 48: Series.median() skips missing cells; NaN when every cell is missing.
\* (On an indicator column the half of an odd sum is lost; such a column has no
\*  missing cell, so its fill value is never used.)
median(col) ==
    LET I == NonNaN(col)
        m == Cardinality(I)
    IN  IF m = 0 THEN NaN
        ELSE IF m % 2 = 1 THEN Kth(col, I, (m + 1) \div 2)
        ELSE (Kth(col, I, m \div 2) + Kth(col, I, (m \div 2) + 1)) \div 2

\* lines 44-49: every column of X is numeric or boolean, so the median branch
\* is the one taken; the in-place fill of X[col] reaches X
fillna_all(M) ==
    LET fill_value == [c \in FeatureColumns |-> median(Column(M, c))]
    IN  [i \in DOMAIN M |->
            [c \in FeatureColumns |->
                IF IsNaN(M[i][c]) THEN fill_value[c] ELSE M[i][c]]]

----------------------------------------------------------------------------
(* Step 2.3: the scaler. *)

\* line 57: the float64/int64 columns; the indicator columns are uint8/bool
numeric_features == NumericColumns

ScaledNaN == [num |-> 0, den2 |-> 0]

\* (the rows a fit reads, leaving the last one out)
FitRowsHoldOut(M) == (DOMAIN M) \ {Len(M)}

\* line 61: fit_transform is given every row of X
FitRows(M) == DOMAIN M

\* (per-feature statistics with the sample variance, ddof = 1)
FeatureStatsSample(M, I, f) ==
    LET col == Column(M, f)
        J   == {i \in I : ~IsNaN(col[i])}
        n   == Cardinality(J)
        S   == SeqSum([k \in 1..Len(M) |-> IF k \in J THEN col[k] ELSE 0])
        Q   == SeqSum([k \in 1..Len(M) |-> IF k \in J THEN col[k] * col[k] ELSE 0])
        V   == IF n > 1 THEN (n * (n * Q - S * S)) \div (n - 1) ELSE 0
    IN  IF n = 0
        THEN [mean |-> RatNaN, scale |-> np_sqrt(RatNaN)]
        ELSE [mean  |-> <<S, 2 * n>>,
              scale |-> np_sqrt(<<IF V = 0 THEN 4 * n * n ELSE V, 4 * n * n>>)]

\* StandardScaler.fit on the rows I of M, for feature f (cells in half units):
\* mean_ = S / 2n, var_ = (n*Q - S*S) / 4n^2 over the cells present, and
\* scale_ = sqrt(var_), or 1 where var_ = 0
FeatureStats(M, I, f) ==
    LET col == Column(M, f)
        J   == {i \in I : ~IsNaN(col[i])}
        n   == Cardinality(J)
        S   == SeqSum([k \in 1..Len(M) |-> IF k \in J THEN col[k] ELSE 0])
        Q   == SeqSum([k \in 1..Len(M) |-> IF k \in J THEN col[k] * col[k] ELSE 0])
        V   == n * Q - S * S
    IN  IF n = 0
        THEN [mean |-> RatNaN, scale |-> np_sqrt(RatNaN)]
        ELSE [mean  |-> <<S, 2 * n>>,
              scale |-> np_sqrt(<<IF V = 0 THEN 4 * n * n ELSE V, 4 * n * n>>)]

\* StandardScaler.fit: the fitted attributes, and which rows the fit read
scaler_fit(sc, M, I) ==
    [n_fits           |-> sc.n_fits + 1,
     fit_index        |-> I,
     n_samples_seen_  |-> Cardinality(I),
     mean_            |-> [f \in numeric_features |-> FeatureStats(M, I, f).mean],
     scale_           |-> [f \in numeric_features |-> FeatureStats(M, I, f).scale]]

\* StandardScaler.transform of one cell h (half units): (h/2 - mean_) / scale_.
\* With mean_ = S/d and scale_ = sqrt(W/d^2) this is (h*d/2 - S) / sqrt(W), kept
\* as [num, den2] = num / sqrt(den2).
scaler_transform(sc, f, h) ==
    LET mean == sc.mean_[f]
        W    == sc.scale_[f].sqrt[1]
    IN  IF IsNaN(h) \/ mean = RatNaN THEN ScaledNaN
        ELSE [num |-> (h * mean[2]) \div 2 - mean[1], den2 |-> W]

\* StandardScaler.transform on the numeric features of every row
transform(sc, M) ==
    [i \in DOMAIN M |->
        [c \in FeatureColumns |->
            IF c \in numeric_features
            THEN scaler_transform(sc, c, M[i][c])
            ELSE M[i][c]]]

----------------------------------------------------------------------------
(* Steps 3-4: the splitter and the learned estimators. *)

\* a random_state argument: <<seed>>, or <<>> for None (not given)
Seeded(random_state) == Len(random_state) > 0

\* (train_test_split called without random_state)
split_unseeded == <<>>

\* line 80: random_state=42
split_random_state == <<42>>

\* line 96: random_state=42
dt_random_state == <<42>>

\* line 103: random_state=42
rf_random_state == <<42>>

\* what an unseeded generator may be seeded with by the operating system
Entropy == {0, 1}

\* line 80: test_size=0.2; n_test = ceil(0.2 * n), in tenths
n_test_of(n) == (2 * n + 9) \div 10

\* the possible contents, in order, of the test partition: k distinct row labels
TestOrders(n, k) == {s \in [1..k -> 1..n] : \A i, j \in 1..k : s[i] = s[j] => i = j}

NoSplit == [test_index |-> <<>>, train_index |-> {},
            X_train |-> <<>>, X_test |-> <<>>, y_train |-> <<>>, y_test |-> <<>>]

\* line 80: the four parts, for the shuffled order ti of the test rows.  The
\* train part is kept by row label; no step reads the order of its rows.
train_test_split(M, yv, ti) ==
    LET train == (DOMAIN M) \ Range(ti)
    IN  [test_index  |-> ti,
         train_index |-> train,
         X_train     |-> [i \in train |-> M[i]],
         X_test      |-> [k \in DOMAIN ti |-> M[ti[k]]],
         y_train     |-> [i \in train |-> yv[i]],
         y_test      |-> [k \in DOMAIN ti |-> yv[ti[k]]]]

NoModel == [estimator |-> "None"]

\* a fitted estimator is a function of its class, its hyperparameters, the random
\* stream it drew from and the training data it was given
fit(estimator, params, rng, sp) ==
    [estimator |-> estimator, params |-> params, rng |-> rng,
     fit_index |-> sp.train_index]

\* check_array: an estimator refuses a NaN cell
HasNaN(sp) ==
    \E i \in sp.train_index : \E c \in numeric_features : sp.X_train[i][c] = ScaledNaN

----------------------------------------------------------------------------
(* Steps 6-8: evaluation and the report. *)

\* lines 172-175: the insertion order of results
ModelOrder == <<"COCOMO I", "Linear Regression", "Decision Tree", "Random Forest">>

ModelNames == Range(ModelOrder)

\* the numeric values a prediction may take in the model
PredValues == {0, 1}

SqrtLess(a, b) == RatLess(a.sqrt, b.sqrt)

\* (min taking the last of several minimal keys)
RECURSIVE min_rmse_last(_, _)
min_rmse_last(res, k) ==
    IF k = 1 THEN ModelOrder[1]
    ELSE LET best == min_rmse_last(res, k - 1)
         IN  IF ~SqrtLess(res[best].rmse, res[ModelOrder[k]].rmse)
             THEN ModelOrder[k] ELSE best

\* line 239: min(results, key=lambda x: results[x]['rmse']) over the first k keys;
\* a later key replaces the best one only when its RMSE is strictly lower
RECURSIVE min_rmse(_, _)
min_rmse(res, k) ==
    IF k = 1 THEN ModelOrder[1]
    ELSE LET best == min_rmse(res, k - 1)
         IN  IF SqrtLess(res[ModelOrder[k]].rmse, res[best].rmse)
             THEN ModelOrder[k] ELSE best

\* lines 246-251
model_objects(m) ==
    [n \in ModelNames |->
        IF n = "Linear Regression" THEN m.lr_model
        ELSE IF n = "Decision Tree" THEN m.dt_model
        ELSE IF n = "Random Forest" THEN m.rf_model
        ELSE NoModel]

\* joblib.dump(value, name)
dump(files, name, value) ==
    [f \in DOMAIN files \cup {name} |-> IF f = name THEN value ELSE files[f]]

\* lines 254-260
save_best(files, best, m, sc) ==
    IF best # "COCOMO I"
    THEN dump(dump(files, "trained_model.pkl", model_objects(m)[best]), "scaler.pkl", sc)
    ELSE files

----------------------------------------------------------------------------
(* Initial states. *)

\* cost-driver ratings of a row: all nominal, or a high reliability rating
Nominal == [d \in DriverSet |-> 1]

HighRely == [d \in DriverSet |-> IF d = "rely" THEN 2 ELSE 1]

NoScaler == [n_fits |-> 0, fit_index |-> {}, n_samples_seen_ |-> 0,
             mean_ |-> <<>>, scale_ |-> <<>>]

NoModels == [lr_model |-> NoModel, dt_model |-> NoModel, rf_model |-> NoModel]

\* the script's state before step 2 on the loaded dataset df
Loaded(df) ==
    /\ data = df
    /\ data_encoded = <<>>
    /\ X = <<>>
    /\ X_unscaled = <<>>
    /\ scaler = NoScaler
    /\ y_log = <<>>
    /\ split = NoSplit
    /\ models = NoModels
    /\ effort_cocomo = <<>>
    /\ cocomo_pred = <<>>
    /\ preds = <<>>
    /\ results = <<>>
    /\ best_model = None
    /\ disk = <<>>
    /\ error = "none"
    /\ run = 1
    /\ prev = <<>>

NoCalls ==
    /\ row = <<>>
    /\ row_mode = None
    /\ ret = <<>>
    /\ y_true = <<>>
    /\ y_pred = <<>>
    /\ metrics = <<>>

\* datasets for the whole script: NumRows rows of sizes 1, 2, ..., one of them
\* possibly without its size, observed efforts expm1(0) and expm1(1) in turn, and
\* the development modes either in rotation or all organic
ModeCycle == <<"organic", "semidetached", "embedded">>

PipelineData(nanAt, pattern) ==
    [i \in 1..NumRows |->
        MkRow(IF i = nanAt THEN NaN ELSE i,
              IF i = 1 THEN HighRely ELSE Nominal,
              IF pattern = "rotation" THEN ModeCycle[(i % 3) + 1] ELSE "organic",
              i % 2)]

Init ==
    /\ pc = "encode"
    /\ \E nanAt \in 0..NumRows : \E pattern \in {"rotation", "organic"} :
           Loaded(PipelineData(nanAt, pattern))
    /\ NoCalls

\* the repeated execution is followed on the datasets with the modes in rotation
\* and the size missing on no row or on the first
InitRerun ==
    /\ pc = "encode"
    /\ \E nanAt \in 0..1 : Loaded(PipelineData(nanAt, "rotation"))
    /\ NoCalls

\* datasets for the feature-building steps: 1..MaxRows rows, each with any
\* dev_mode value and one of two numeric profiles, or with the size missing, or
\* with the dev_mode cell missing
FeatureRows ==
    {MkRow(k[1], k[2], m, 0) :
        k \in {<<1, Nominal>>, <<2, HighRely>>},
        m \in ModeValues}
    \cup {MkRow(NaN, Nominal, "organic", 0), MkRow(1, Nominal, NoMode, 0)}

InitFeatures ==
    /\ pc = "encode"
    /\ \E n \in 1..MaxRows : \E df \in [1..n -> FeatureRows] : Loaded(df)
    /\ NoCalls

Idle == Loaded(<<>>)

\* rows for a direct call of calculate_cocomo_effort: the size present or not;
\* the mode given as a dev_mode cell, as the three indicators, or not at all; at
\* most MaxAbsent drivers absent, or all of them; at most one driver rated 2 and
\* the others rated 1
OneHot(m) == [c \in ModeColumns |-> IF m \in DOMAIN ModeColumn /\ c = ModeColumn[m] THEN 1 ELSE 0]

CallRow(loc, layout, m, present, hot) ==
    [l \in (IF IsNaN(loc) THEN {} ELSE {"loc"}) \cup present
           \cup (IF layout = "dev_mode" THEN {"dev_mode"}
                 ELSE IF layout = "indicators" THEN ModeColumns ELSE {}) |->
        IF l = "loc" THEN loc
        ELSE IF l = "dev_mode" THEN m
        ELSE IF l \in ModeColumns THEN OneHot(m)[l]
        ELSE IF l = hot THEN 2 ELSE 1]

PresentSets ==
    {DriverSet \ A : A \in {B \in SUBSET DriverSet : Cardinality(B) <= MaxAbsent}}
    \cup {{}}

InitCocomo ==
    /\ pc = "call_cocomo"
    /\ Idle
    /\ \E loc \in {NaN, 1, 2} :
       \E layout \in {"dev_mode", "indicators", "none"} :
       \E m \in (IF layout = "none" THEN {None} ELSE ModeValues \cup {NoMode}) :
       \E present \in PresentSets :
       \E hot \in present \cup {None} :
           /\ row = CallRow(loc, layout, m, present, hot)
           /\ row_mode = m
    /\ ret = <<>>
    /\ y_true = <<>>
    /\ y_pred = <<>>
    /\ metrics = <<>>

InitEval ==
    /\ pc = "call_evaluate"
    /\ Idle
    /\ row = <<>>
    /\ row_mode = None
    /\ ret = <<>>
    /\ \E n \in 1..MaxLen :
           /\ y_true \in [1..n -> 0..MaxVal]
           /\ y_pred \in [1..n -> 0..MaxVal]
    /\ metrics = <<>>

----------------------------------------------------------------------------
(* The steps of the script. *)

\* line 37
y == Column(data, "actual")

\* lines 29-37
Encode ==
    /\ pc = "encode"
    /\ LET enc == get_dummies(data)
       IN  /\ data_encoded' = enc
           /\ IF ModeColumns \subseteq Columns(enc)
              THEN /\ X' = BuildX(data, enc)
                   /\ pc' = "impute"
                   /\ error' = error
              ELSE \* data_encoded[[...]] on a column that does not exist
                   /\ X' = X
                   /\ pc' = "error"
                   /\ error' = "KeyError"
    /\ UNCHANGED <<data, X_unscaled, scaler, y_log, split, models, effort_cocomo,
                   cocomo_pred, preds, results, best_model, disk, run, prev>>
    /\ UNCHANGED <<cocomo_vars, eval_vars>>

\* lines 44-49
Impute ==
    /\ pc = "impute"
    /\ X' = fillna_all(X)
    /\ pc' = "scale"
    /\ UNCHANGED <<data, data_encoded, X_unscaled, scaler, y_log, split, models,
                   effort_cocomo, cocomo_pred, preds, results, best_model, disk,
                   error, run, prev>>
    /\ UNCHANGED <<cocomo_vars, eval_vars>>

\* lines 55-62: fit_transform fits the scaler on X[numeric_features] and
\* transforms the same rows with it
Scale ==
    /\ pc = "scale"
    /\ X_unscaled' = X
    /\ scaler' = scaler_fit(scaler, X, FitRows(X))
    /\ X' = transform(scaler', X)
    /\ y_log' = [i \in DOMAIN y |-> np_log1p(y[i])]
    /\ pc' = "split"
    /\ UNCHANGED <<data, data_encoded, split, models, effort_cocomo, cocomo_pred,
                   preds, results, best_model, disk, error, run, prev>>
    /\ UNCHANGED <<cocomo_vars, eval_vars>>

\* line 80.  The shuffle is a function of the number of rows and the seed: a
\* repeated execution with the same seed draws the same order; without a seed
\* each execution draws its own.
Split ==
    /\ pc = "split"
    /\ LET n       == Len(X)
           n_test  == n_test_of(n)
           n_train == n - n_test
       IN  IF n_train = 0
           THEN /\ split' = split
                /\ pc' = "error"
                /\ error' = "ValueError"
           ELSE /\ \E ti \in TestOrders(n, n_test) :
                       /\ (run = 2 /\ Seeded(split_random_state))
                              => ti = prev.split.test_index
                       /\ split' = train_test_split(X, y_log, ti)
                /\ pc' = "train"
                /\ error' = error
    /\ UNCHANGED <<data, data_encoded, X, X_unscaled, scaler, y_log, models,
                   effort_cocomo, cocomo_pred, preds, results, best_model, disk,
                   run, prev>>
    /\ UNCHANGED <<cocomo_vars, eval_vars>>

\* lines 89-104
Train ==
    /\ pc = "train"
    /\ IF HasNaN(split)
       THEN /\ models' = models
            /\ pc' = "error"
            /\ error' = "ValueError"
       ELSE /\ \E e_dt \in Entropy : \E e_rf \in Entropy :
                   models' =
                     [lr_model |-> fit("LinearRegression", <<>>, <<>>, split),
                      dt_model |-> fit("DecisionTreeRegressor", [max_depth |-> 5],
                                       IF Seeded(dt_random_state)
                                       THEN dt_random_state ELSE <<e_dt>>, split),
                      rf_model |-> fit("RandomForestRegressor", [n_estimators |-> 100],
                                       IF Seeded(rf_random_state)
                                       THEN rf_random_state ELSE <<e_rf>>, split)]
            /\ pc' = "cocomo"
            /\ error' = error
    /\ UNCHANGED <<data, data_encoded, X, X_unscaled, scaler, y_log, split,
                   effort_cocomo, cocomo_pred, preds, results, best_model, disk,
                   run, prev>>
    /\ UNCHANGED <<cocomo_vars, eval_vars>>

\* line 143: data.apply(calculate_cocomo_effort, axis=1) hands over the rows of
\* data, as loaded
cocomo_input(i) == data[i]

\* (the first rows of the column, in dataset order)
select_test_rows_head(col, test_indices) == [k \in DOMAIN test_indices |-> col[k]]

\* lines 146-147: data.loc[test_indices, 'effort_cocomo'].values
select_test_rows(col, test_indices) == [k \in DOMAIN test_indices |-> col[test_indices[k]]]

\* lines 143-147
Cocomo ==
    /\ pc = "cocomo"
    /\ LET out == [i \in DOMAIN data |-> calculate_cocomo_effort(cocomo_input(i))]
       IN  IF \E i \in DOMAIN data : out[i].raised # "none"
           THEN /\ UNCHANGED <<effort_cocomo, cocomo_pred>>
                /\ pc' = "error"
                /\ error' = "KeyError"
           ELSE /\ effort_cocomo' = [i \in DOMAIN data |-> out[i].value]
                /\ cocomo_pred' = select_test_rows([i \in DOMAIN data |-> out[i].value],
                                                   split.test_index)
                /\ pc' = "evaluate"
                /\ error' = error
    /\ UNCHANGED <<data, data_encoded, X, X_unscaled, scaler, y_log, split, models,
                   preds, results, best_model, disk, run, prev>>
    /\ UNCHANGED <<cocomo_vars, eval_vars>>

\* lines 153-175.  The numeric value of a prediction (of a fitted estimator on a
\* row of X_test, of the parametric term of a row) is not computable here and is
\* drawn from PredValues; it is a function of what it is computed from, so a
\* repeated execution that computes it from the same things draws the same value.
\* The metric functions refuse a NaN prediction.
Evaluate ==
    /\ pc = "evaluate"
    /\ IF \E k \in DOMAIN cocomo_pred : EffortIsNaN(cocomo_pred[k].log1p)
       THEN /\ UNCHANGED <<preds, results>>
            /\ pc' = "error"
            /\ error' = "ValueError"
       ELSE /\ \E p \in [ModelNames -> [DOMAIN split.y_test -> PredValues]] :
                   /\ run = 2 =>
                        /\ cocomo_pred = prev.cocomo_pred
                              => p["COCOMO I"] = prev.preds["COCOMO I"]
                        /\ \A m \in ModelNames \ {"COCOMO I"} :
                              (/\ model_objects(models)[m] = model_objects(prev.models)[m]
                               /\ split.X_test = prev.split.X_test)
                              => p[m] = prev.preds[m]
                   /\ preds' = p
                   /\ results' = [m \in ModelNames |-> evaluate_model(split.y_test, p[m])]
            /\ pc' = "report"
            /\ error' = error
    /\ UNCHANGED <<data, data_encoded, X, X_unscaled, scaler, y_log, split, models,
                   effort_cocomo, cocomo_pred, best_model, disk, run, prev>>
    /\ UNCHANGED <<cocomo_vars, eval_vars>>

\* lines 239-260
Report ==
    /\ pc = "report"
    /\ best_model' = min_rmse(results, Len(ModelOrder))
    /\ disk' = save_best(disk, min_rmse(results, Len(ModelOrder)), models, scaler)
    /\ pc' = "done"
    /\ UNCHANGED <<data, data_encoded, X, X_unscaled, scaler, y_log, split, models,
                   effort_cocomo, cocomo_pred, preds, results, error, run, prev>>
    /\ UNCHANGED <<cocomo_vars, eval_vars>>

\* the script is started again on the same input; the files of the first
\* execution stay on disk
Rerun ==
    /\ pc = "done"
    /\ run = 1
    /\ run' = 2
    /\ prev' = [split |-> split, models |-> models, effort_cocomo |-> effort_cocomo,
                cocomo_pred |-> cocomo_pred, preds |-> preds, results |-> results,
                best_model |-> best_model]
    /\ pc' = "encode"
    /\ data_encoded' = <<>>
    /\ X' = <<>>
    /\ X_unscaled' = <<>>
    /\ scaler' = NoScaler
    /\ y_log' = <<>>
    /\ split' = NoSplit
    /\ models' = NoModels
    /\ effort_cocomo' = <<>>
    /\ cocomo_pred' = <<>>
    /\ preds' = <<>>
    /\ results' = <<>>
    /\ best_model' = None
    /\ UNCHANGED <<data, disk, error>>
    /\ UNCHANGED <<cocomo_vars, eval_vars>>

\* a direct call of calculate_cocomo_effort
CallCocomo ==
    /\ pc = "call_cocomo"
    /\ ret' = calculate_cocomo_effort(row)
    /\ pc' = "returned"
    /\ UNCHANGED <<row, row_mode, pipeline_vars, eval_vars>>

\* a direct call of evaluate_model
CallEvaluate ==
    /\ pc = "call_evaluate"
    /\ metrics' = evaluate_model(y_true, y_pred)
    /\ pc' = "returned"
    /\ UNCHANGED <<y_true, y_pred, pipeline_vars, cocomo_vars>>

Next == Encode \/ Impute \/ Scale \/ Split \/ Train \/ Cocomo \/ Evaluate \/ Report

Spec == Init /\ [][Next]_vars

NextFeatures == Encode \/ Impute \/ Scale

SpecFeatures == InitFeatures /\ [][NextFeatures]_vars

SpecRerun == InitRerun /\ [][Next \/ Rerun]_vars

SpecCocomo == InitCocomo /\ [][CallCocomo]_vars

SpecEval == InitEval /\ [][CallEvaluate]_vars

----------------------------------------------------------------------------
(* The properties. *)

\* the coefficient table of the parametric model, (a, b) in tenths and hundredths
ExpectedPair(m) ==
    IF m = "organic" THEN <<24, 105>>
    ELSE IF m = "semidetached" THEN <<30, 112>>
    ELSE <<36, 120>>

\* the product of the ratings r[d], d in S
RECURSIVE SetProduct(_, _)
SetProduct(r, S) ==
    IF S = {} THEN 1
    ELSE LET d == CHOOSE e \in S : TRUE
         IN  Mul(r[d], SetProduct(r, S \ {d}))

PresentDrivers(r) == DriverSet \cap DOMAIN r

\* C1: a call that returns has used the pair of the mode the row was built from:
\* organic (2.4, 1.05), semidetached (3.0, 1.12), embedded (3.6, 1.20), and the
\* embedded pair for any other value, a missing cell, or a row without mode labels.
C1_CoefficientsByMode ==
    /\ pc \in {"call_cocomo", "returned"} => Coefficients(row) = ExpectedPair(row_mode)
    /\ (pc = "returned" /\ ret.raised = "none") =>
           <<ret.value.log1p.a10, ret.value.log1p.b100>> = ExpectedPair(row_mode)

\* C1 witness: a row with no mode label at all got the embedded pair
C1_Witness ==
    /\ pc = "returned"
    /\ ret.raised = "none"
    /\ DOMAIN row \cap (ModeColumns \cup {"dev_mode"}) = {}
    /\ <<ret.value.log1p.a10, ret.value.log1p.b100>> = <<36, 120>>

\* C2: on a row that carries loc the call returns, without error,
\* log1p(a * loc^b * EM) with EM the product of the ratings of exactly the drivers
\* present on the row; with all fifteen drivers at 1 and mode organic that is
\* log1p(2.4 * loc^1.05 * 1).
C2_EffortFormula ==
    (pc = "returned" /\ "loc" \in DOMAIN row) =>
        /\ ret.raised = "none"
        /\ ret.value = [log1p |-> [a10  |-> ExpectedPair(row_mode)[1],
                                   b100 |-> ExpectedPair(row_mode)[2],
                                   kloc |-> row["loc"],
                                   em   |-> SetProduct(row, PresentDrivers(row))]]
        /\ (/\ PresentDrivers(row) = DriverSet
            /\ \A d \in DriverSet : row[d] = 1
            /\ row_mode = "organic")
           => ret.value = [log1p |-> [a10 |-> 24, b100 |-> 105,
                                      kloc |-> row["loc"], em |-> 1]]

\* C2 witness: a driver is absent, another is rated 2, and the call returned with
\* EM = 2
C2_Witness ==
    /\ pc = "returned"
    /\ "loc" \in DOMAIN row
    /\ Cardinality(PresentDrivers(row)) = Len(cost_drivers) - 1
    /\ \E d \in PresentDrivers(row) : row[d] = 2
    /\ ret.raised = "none"
    /\ ret.value.log1p.em = 2

\* C3: a call on a row that carries none of the fifteen cost drivers raises an
\* error.
C3_AllDriversMissingRaises ==
    (pc = "returned" /\ PresentDrivers(row) = {}) => ret.raised # "none"

KnownModes == {"organic", "semidetached", "embedded"}

Indicators(i) == {c \in ModeColumns : X[i][c] = 1}

\* C4: for every dataset the feature builder ends without error, and in the
\* feature matrix a row of a known mode has exactly one indicator at 1 (all three
\* otherwise 0) and a row of any other mode has all three at 0.
C4_OneHotEveryDataset ==
    pc # "encode" =>
        /\ error = "none"
        /\ \A i \in DOMAIN data :
              /\ \A c \in ModeColumns : X[i][c] \in {0, 1}
              /\ data[i]["dev_mode"] \in KnownModes => Cardinality(Indicators(i)) = 1
              /\ data[i]["dev_mode"] \notin KnownModes => Indicators(i) = {}

LearnedNames == ModelNames \ {"COCOMO I"}

Artifacts == {"trained_model.pkl", "scaler.pkl"}

\* C5: the selected estimator has minimum test RMSE among the four; the two
\* artifacts are written together, and exactly when some learned estimator has a
\* strictly lower RMSE than the formula; when the formula is selected (also on a
\* tie) nothing is written; the estimator written is the selected one.
C5_SelectAndPersist ==
    /\ pc # "done" => DOMAIN disk = {}
    /\ pc = "done" =>
        /\ best_model \in ModelNames
        /\ \A m \in ModelNames : ~SqrtLess(results[m].rmse, results[best_model].rmse)
        /\ DOMAIN disk \in {{}, Artifacts}
        /\ (DOMAIN disk = Artifacts) <=>
              (\E m \in LearnedNames :
                  SqrtLess(results[m].rmse, results["COCOMO I"].rmse))
        /\ best_model = "COCOMO I" => DOMAIN disk = {}
        /\ DOMAIN disk = Artifacts =>
              /\ best_model \in LearnedNames
              /\ disk["trained_model.pkl"] = model_objects(models)[best_model]
              /\ disk["trained_model.pkl"].estimator # "None"

\* C5 witness: the formula ties with a learned estimator at the minimum, is
\* selected, and nothing is written
C5_Witness ==
    /\ pc = "done"
    /\ best_model = "COCOMO I"
    /\ \E m \in LearnedNames : results[m].rmse = results["COCOMO I"].rmse
    /\ DOMAIN disk = {}

MaeNonNeg == metrics.mae[1] >= 0 /\ metrics.mae[2] > 0

RmseNonNeg == metrics.rmse.sqrt[1] >= 0 /\ metrics.rmse.sqrt[2] > 0

\* RMSE >= MAE, both non-negative: MSE >= MAE^2
RmseGeqMae ==
    metrics.rmse.sqrt[1] * metrics.mae[2] * metrics.mae[2]
        >= metrics.mae[1] * metrics.mae[1] * metrics.rmse.sqrt[2]

R2IsOne == metrics.r2 # RatNaN /\ RatEq(metrics.r2, <<1, 1>>)

ColNums(f) == [i \in DOMAIN X |-> X[i][f].num]

ColDen2(f) == X[1][f].den2

ColHasNaN(f) == \E i \in DOMAIN X : X[i][f] = ScaledNaN

ColMeanZero(f) == ~ColHasNaN(f) /\ SeqSum(ColNums(f)) = 0

\* population variance 1: n * sum(num^2) - sum(num)^2 = n^2 * den2
ColStdOne(f) ==
    LET n == Len(X)
    IN  /\ ~ColHasNaN(f)
        /\ n * SeqSum([i \in DOMAIN X |-> ColNums(f)[i] * ColNums(f)[i]])
             - SeqSum(ColNums(f)) * SeqSum(ColNums(f)) = n * n * ColDen2(f)

ColAllZero(f) == \A i \in DOMAIN X : X[i][f] # ScaledNaN /\ X[i][f].num = 0

\* the column before scaling (after imputation)
ColConstant(f) == \A i, j \in DOMAIN X_unscaled : X_unscaled[i][f] = X_unscaled[j][f]

ColMissing(f) == \A i \in DOMAIN X_unscaled : IsNaN(X_unscaled[i][f])

AfterSplit == {"train", "cocomo", "evaluate", "report", "done"}

\* the mean of the imputed column f over the rows I, as a rational (half units)
MeanOver(f, I) ==
    <<SeqSum([k \in 1..Len(X_unscaled) |-> IF k \in I THEN X_unscaled[k][f] ELSE 0]),
      2 * Cardinality(I)>>

\* the standard deviation of the imputed column f over the rows I, with 1 for a
\* constant column: (2n)^2 * var = n * sum(h^2) - sum(h)^2 for cells h in half units
ScaleOver(f, I) ==
    LET n  == Cardinality(I)
        h  == [k \in 1..Len(X_unscaled) |-> IF k \in I THEN X_unscaled[k][f] ELSE 0]
        sq == n * SeqSum([k \in DOMAIN h |-> h[k] * h[k]]) - SeqSum(h) * SeqSum(h)
    IN  [sqrt |-> <<IF sq = 0 THEN 4 * n * n ELSE sq, 4 * n * n>>]

\* C9: the scaler is fit once, on all rows, before the split is made; its stored
\* mean and standard deviation are those over all rows, test rows included; it
\* is not fit again, and the scaler written to disk is that one.
C9_ScalerFitOnAllRows ==
    /\ pc \in {"encode", "impute", "scale"} => scaler.n_fits = 0
    /\ pc = "split" => scaler.n_fits = 1 /\ split = NoSplit
    /\ pc \in AfterSplit =>
          /\ scaler.n_fits = 1
          /\ scaler.fit_index = DOMAIN data
          /\ split.test_index # <<>>
          /\ Range(split.test_index) \subseteq scaler.fit_index
          /\ \A f \in numeric_features :
                /\ scaler.mean_[f] = MeanOver(f, DOMAIN data)
                /\ scaler.scale_[f] = ScaleOver(f, DOMAIN data)
    /\ "scaler.pkl" \in DOMAIN disk => disk["scaler.pkl"] = scaler

\* C9 witness: the scaler is on disk and its mean of the size column differs from
\* the mean over the training rows alone
C9_Witness ==
    /\ pc = "done"
    /\ "scaler.pkl" \in DOMAIN disk
    /\ ~RatEq(scaler.mean_["loc"], MeanOver("loc", split.train_index))

\* C10: the k-th parametric prediction and the k-th test target belong to the
\* same dataset row, and the prediction is the formula on that row's loc, cost
\* drivers and dev_mode as loaded.
C10_CocomoOnRawTestRows ==
    pc \in {"evaluate", "report", "done"} =>
        /\ DOMAIN cocomo_pred = DOMAIN split.y_test
        /\ \A k \in DOMAIN cocomo_pred :
              LET t == split.test_index[k]
              IN  /\ split.y_test[k] = data[t]["actual"].expm1
                  /\ cocomo_pred[k] =
                        [log1p |-> [a10  |-> ExpectedPair(data[t]["dev_mode"])[1],
                                    b100 |-> ExpectedPair(data[t]["dev_mode"])[2],
                                    kloc |-> data[t]["loc"],
                                    em   |-> SetProduct(data[t], DriverSet)]]

\* C10 witness: scored predictions of two test rows drawn out of dataset order,
\* on a dataset whose feature matrix was imputed
C10_Witness ==
    /\ pc = "done"
    /\ Len(split.test_index) = 2
    /\ split.test_index[1] > split.test_index[2]
    /\ \E i \in DOMAIN data : IsNaN(data[i]["loc"])
    /\ "COCOMO I" \in DOMAIN results

====
